---- MODULE Spec2Model ----
(***************************************************************************)
(* Model of the feed subsystem of zamboni:                                 *)
(*   mkt/feed/views.py      FeedBuilderView.put, BaseFeedCollectionViewSet *)
(*   mkt/websites/models.py update_search_index, delete_search_index       *)
(***************************************************************************)
EXTENDS Bags, FiniteSets, Integers, Sequences, TLC

VARIABLES
    feedItems,      \* the FeedItem table: a bag of rows
    feedPc,         \* "idle" | "done": position of the builder request
    request,        \* request.DATA of the builder request in flight
    response,       \* the response of the builder request in flight
    cpc,            \* concurrent builder requests: position of each
    creq,           \* concurrent builder requests: request.DATA of each
    citems,         \* concurrent builder requests: local feed_items of each
    cresp,          \* concurrent builder requests: response of each
    collections,    \* the feed collection table: id -> record
    colPc,          \* "idle" | "done": position of the collection request
    colRequest,     \* the collection request in flight
    colResponse,    \* the response of the collection request in flight
    colSteps,       \* the steps the collection handler executed, in order
    websites,       \* the Website table: id -> row
    index,          \* the search index: id -> document
    nextWebsiteId,  \* the auto-increment counter of the Website table
    lastWebsiteOp   \* the last operation on the Website table

feedVars == <<feedItems, feedPc, request, response>>
concVars == <<cpc, creq, citems, cresp>>
colVars  == <<collections, colPc, colRequest, colResponse, colSteps>>
webVars  == <<websites, index, nextWebsiteId, lastWebsiteOp>>
vars     == <<feedItems, feedPc, request, response, cpc, creq, citems, cresp,
              collections, colPc, colRequest, colResponse, colSteps,
              websites, index, nextWebsiteId, lastWebsiteOp>>

----------------------------------------------------------------------------
(* Bounds *)

\* the largest number of feed elements in one rebuild payload
MaxEntries == 2

\* the largest number of ids in the `apps` list of a collection request
MaxApps == 2

\* the largest number of feed collections created
MaxCollections == 1

\* the largest number of Website rows created
MaxWebsites == 3

\* NULL in a nullable column (database ids start at 1)
NULL == 0

----------------------------------------------------------------------------
(* Regions and payloads *)

\* mkt.regions.REGIONS_DICT: region name -> region object
REGIONS_DICT == [us |-> [id |-> 2], uk |-> [id |-> 4]]

\* the names a payload may use as keys; "xx" is not a region
RegionNames == {"us", "uk", "xx"}
RegionOrder == <<"us", "uk", "xx">>

\* the item types the FeedItem model has a foreign key for
ItemTypes == {"app", "brand", "collection"}

\* a JSON value in a region's list: an array, or a number
JsonArray(elems) == [py |-> "list", elems |-> elems]
JsonNumber == [py |-> "int", elems |-> <<>>]

\* two elements of the example in the docstring of put
ValidElements ==
    { JsonArray(<<"app", 36>>), JsonArray(<<"collection", 12>>) }

\* elements that are not two-element arrays
MalformedElements == { JsonArray(<<"app">>), JsonNumber }

Elements == ValidElements \cup MalformedElements

RECURSIVE SumOver(_, _)
SumOver(f, S) ==
    IF S = {} THEN 0
    ELSE LET k == CHOOSE x \in S : TRUE IN f[k] + SumOver(f, S \ {k})

Offset(K, lens, k) ==
    LET pos(n) == CHOOSE i \in 1..Len(RegionOrder) : RegionOrder[i] = n
    IN  SumOver(lens, {n \in K : pos(n) < pos(k)})

MkPayload(K, lens, flat) ==
    [k \in K |-> SubSeq(flat, Offset(K, lens, k) + 1,
                              Offset(K, lens, k) + lens[k])]

\* every request.DATA with at most MaxEntries elements in all; the list of a
\* key that is not a region is never read, and is left empty
Payloads ==
    UNION { UNION { { MkPayload(K, lens, flat) :
                        flat \in [1..SumOver(lens, K) -> Elements] } :
                    lens \in { l \in [K -> 0..MaxEntries] :
                                 /\ SumOver(l, K) <= MaxEntries
                                 /\ \A k \in K \ DOMAIN REGIONS_DICT : l[k] = 0 } } :
            K \in SUBSET RegionNames }

EmptyPayload == [k \in {} |-> <<>>]
NoResponse == [status |-> 0, body |-> ""]

----------------------------------------------------------------------------
(* FeedBuilderView.put *)

\* a FeedItem whose id always lands in app_id
FeedItem_AppOnly(region, order, item_type, item_id) ==
    [region |-> region, carrier |-> NULL, order |-> order,
     item_type |-> item_type, app_id |-> item_id,
     brand_id |-> NULL, collection_id |-> NULL]

\* FeedItem(region=..., order=..., item_type=..., <item_type>_id=...)
FeedItem(region, order, item_type, item_id) ==
    [region |-> region, carrier |-> NULL, order |-> order,
     item_type |-> item_type,
     app_id |-> IF item_type = "app" THEN item_id ELSE NULL,
     brand_id |-> IF item_type = "brand" THEN item_id ELSE NULL,
     collection_id |-> IF item_type = "collection" THEN item_id ELSE NULL]

\* regions = [REGIONS_DICT[region].id for region in request.DATA.keys()]
UnknownRegion(data) == \E k \in DOMAIN data : k \notin DOMAIN REGIONS_DICT
ResolveRegions(data) == { REGIONS_DICT[k].id : k \in DOMAIN data }

\* a delete that filters on the region only
DeleteCarrierless_AnyCarrier(items, regions) ==
    [r \in { x \in BagToSet(items) : ~(x.region \in regions) } |-> items[r]]

\* a delete that deletes nothing
DeleteCarrierless_Skip(items, regions) == items

\* FeedItem.objects.filter(carrier=None, region__in=regions).delete()
DeleteCarrierless(items, regions) ==
    [r \in { x \in BagToSet(items) :
                ~(x.carrier = NULL /\ x.region \in regions) } |-> items[r]]

\* item_type, item_id = feed_element
Unpack(feed_element) ==
    IF feed_element.py # "list" THEN "TypeError"
    ELSE IF Len(feed_element.elems) # 2 THEN "ValueError"
    ELSE "ok"

\* the exceptions the loop over request.DATA.items() can stop with: that of
\* the first bad element of the region the dict iteration reaches first
FirstBad(feed_elements) ==
    CHOOSE i \in 1..Len(feed_elements) :
        /\ Unpack(feed_elements[i]) # "ok"
        /\ \A j \in 1..(i - 1) : Unpack(feed_elements[j]) = "ok"
HasBad(feed_elements) ==
    \E i \in 1..Len(feed_elements) : Unpack(feed_elements[i]) # "ok"
LoopExceptions(data) ==
    { Unpack(data[k][FirstBad(data[k])]) : k \in {n \in DOMAIN data : HasBad(data[n])} }

\* feed_items with the order counted from 1
BuildFeedItems_FromOne(data) ==
    SetToBag(UNION { { FeedItem(REGIONS_DICT[k].id, i,
                                data[k][i].elems[1], data[k][i].elems[2]) :
                       i \in 1..Len(data[k]) } : k \in DOMAIN data })

\* feed_items after the loop over request.DATA.items(), for a payload whose
\* elements all unpack: one FeedItem per element, order = its index
BuildFeedItems(data) ==
    SetToBag(UNION { { FeedItem(REGIONS_DICT[k].id, i - 1,
                                data[k][i].elems[1], data[k][i].elems[2]) :
                       i \in 1..Len(data[k]) } : k \in DOMAIN data })

\* an exception no handler catches leaves the view: the framework answers 500
ServerError(exc) == [status |-> 500, body |-> exc]
BadRequest(msg) == [status |-> 400, body |-> msg]
Created == [status |-> 201, body |-> ""]

\* the rows a request that died of an uncaught exception after its delete
\* leaves behind: the delete stays (autocommit) or is rolled back
\* (transaction per request)
AfterUncaught(before, remaining) == {before, remaining}

\* FeedBuilderView.put, start to finish
Put(data) ==
    /\ feedPc = "idle"
    /\ feedPc' = "done"
    /\ request' = data
    /\ IF UnknownRegion(data)
       THEN /\ response' = ServerError("KeyError")
            /\ feedItems' = feedItems
       ELSE LET remaining == DeleteCarrierless(feedItems, ResolveRegions(data))
            IN  IF LoopExceptions(data) = {}
                THEN /\ feedItems' = remaining (+) BuildFeedItems(data)
                     /\ response' = Created
                ELSE \E exc \in LoopExceptions(data) :
                        IF exc = "ValueError"
                        THEN /\ feedItems' = remaining
                             /\ response' = BadRequest("Expected two-element arrays.")
                        ELSE /\ feedItems' \in AfterUncaught(feedItems, remaining)
                             /\ response' = ServerError(exc)
    /\ UNCHANGED <<concVars, colVars, webVars>>

\* the response is sent and the request is over
FinishPut ==
    /\ feedPc = "done"
    /\ feedPc' = "idle"
    /\ request' = EmptyPayload
    /\ response' = NoResponse
    /\ UNCHANGED <<feedItems, concVars, colVars, webVars>>

----------------------------------------------------------------------------
(* Two FeedBuilderView.put requests running concurrently, statement by      *)
(* statement, each statement committed on its own                          *)

Procs == {1, 2}

\* the payloads of the concurrent requests: one region, or an unknown one
ConcPayloads ==
    { d \in Payloads : DOMAIN d = {"us"} } \cup { [k \in {"xx"} |-> <<>>] }

\* lines 119-120: resolve the regions
CResolve(p, data) ==
    /\ cpc[p] = "start"
    /\ creq' = [creq EXCEPT ![p] = data]
    /\ IF UnknownRegion(data)
       THEN /\ cpc' = [cpc EXCEPT ![p] = "done"]
            /\ cresp' = [cresp EXCEPT ![p] = ServerError("KeyError")]
       ELSE /\ cpc' = [cpc EXCEPT ![p] = "resolved"]
            /\ cresp' = cresp
    /\ UNCHANGED <<feedItems, citems, feedPc, request, response, colVars, webVars>>

\* lines 121-122: the delete
CDelete(p) ==
    /\ cpc[p] = "resolved"
    /\ feedItems' = DeleteCarrierless(feedItems, ResolveRegions(creq[p]))
    /\ cpc' = [cpc EXCEPT ![p] = "deleted"]
    /\ UNCHANGED <<creq, citems, cresp, feedPc, request, response, colVars, webVars>>

\* lines 124-139: the loop that builds feed_items
CBuild(p) ==
    /\ cpc[p] = "deleted"
    /\ IF LoopExceptions(creq[p]) = {}
       THEN /\ citems' = [citems EXCEPT ![p] = BuildFeedItems(creq[p])]
            /\ cpc' = [cpc EXCEPT ![p] = "built"]
            /\ cresp' = cresp
       ELSE \E exc \in LoopExceptions(creq[p]) :
                /\ citems' = citems
                /\ cpc' = [cpc EXCEPT ![p] = "done"]
                /\ cresp' = [cresp EXCEPT ![p] =
                       IF exc = "ValueError"
                       THEN BadRequest("Expected two-element arrays.")
                       ELSE ServerError(exc)]
    /\ UNCHANGED <<feedItems, creq, feedPc, request, response, colVars, webVars>>

\* lines 141-142: the bulk insert and the response
CBulkCreate(p) ==
    /\ cpc[p] = "built"
    /\ feedItems' = feedItems (+) citems[p]
    /\ cpc' = [cpc EXCEPT ![p] = "done"]
    /\ cresp' = [cresp EXCEPT ![p] = Created]
    /\ UNCHANGED <<creq, citems, feedPc, request, response, colVars, webVars>>

----------------------------------------------------------------------------
(* BaseFeedCollectionViewSet: create and update *)

\* the ids of the apps that exist, and the ids a request may name
Webapps == {1, 2}
AppIds == {1, 2, 3}

\* the values of the base field of a collection; "" does not validate
Names == {"a", "b"}
NoCollectionRequest == [method |-> "none", id |-> 0, data |-> [name |-> ""], apps |-> <<>>]

AppLists == UNION { [1..n -> AppIds] : n \in 0..MaxApps }

\* f with key k set to v
Extend(f, k, v) == [x \in DOMAIN f \cup {k} |-> IF x = k THEN v ELSE f[x]]
\* f without key k
Without(f, k) == [x \in DOMAIN f \ {k} |-> f[x]]

\* exceptions['doesnt_exist'] (the backquotes around apps left out)
doesnt_exist == "One or more of the specified apps do not exist."

\* serializer.is_valid()
IsValid(data) == data.name # ""

\* BaseFeedCollection.set_apps(apps): attach the apps in submitted order, or
\* raise Webapp.DoesNotExist at the first id that does not resolve, leaving
\* the old association or the part attached so far
ObjSetApps(old, apps) ==
    IF \A i \in 1..Len(apps) : apps[i] \in Webapps
    THEN { [exc |-> "none", apps |-> apps] }
    ELSE LET bad == CHOOSE i \in 1..Len(apps) :
                        /\ apps[i] \notin Webapps
                        /\ \A j \in 1..(i - 1) : apps[j] \in Webapps
         IN  { [exc |-> "DoesNotExist", apps |-> old],
               [exc |-> "DoesNotExist", apps |-> SubSeq(apps, 1, bad - 1)] }

\* BaseFeedCollectionViewSet.set_apps(obj, apps)
set_apps(old, apps) ==
    IF apps # <<>>
    THEN { [exc |-> IF o.exc = "DoesNotExist" THEN "ParseError" ELSE "none",
            apps |-> o.apps] : o \in ObjSetApps(old, apps) }
    ELSE { [exc |-> "none", apps |-> old] }

\* the id serializer.save(force_insert=True) gives the new row
NewId(cols) == Cardinality(DOMAIN cols) + 1

\* a create that resolves the apps before it saves the record
create_AppsFirst(cols, data, apps) ==
    IF IsValid(data)
    THEN LET id == NewId(cols)
         IN  { IF o.exc = "ParseError"
               THEN [collections |-> cols,
                     response |-> BadRequest(doesnt_exist),
                     steps |-> <<"is_valid", "set_apps">>]
               ELSE [collections |->
                         Extend(cols, id, [name |-> data.name, apps |-> o.apps]),
                     response |-> Created,
                     steps |-> <<"is_valid", "set_apps", "pre_save", "save",
                                 "post_save">>] :
               o \in set_apps(<<>>, apps) }
    ELSE { [collections |-> cols, response |-> BadRequest("errors"),
            steps |-> <<"is_valid">>] }

\* BaseFeedCollectionViewSet.create: the outcomes of a request
create(cols, data, apps) ==
    IF IsValid(data)
    THEN LET id == NewId(cols)
             saved == Extend(cols, id, [name |-> data.name, apps |-> <<>>])
         IN  { IF o.exc = "ParseError"
               THEN [collections |-> [saved EXCEPT ![id].apps = o.apps],
                     response |-> BadRequest(doesnt_exist),
                     steps |-> <<"is_valid", "pre_save", "save", "set_apps">>]
               ELSE [collections |-> [saved EXCEPT ![id].apps = o.apps],
                     response |-> Created,
                     steps |-> <<"is_valid", "pre_save", "save", "set_apps",
                                 "post_save">>] :
               o \in set_apps(saved[id].apps, apps) }
    ELSE { [collections |-> cols, response |-> BadRequest("errors"),
            steps |-> <<"is_valid">>] }

\* the generic update of the framework: validate, then save the fields
super_update(cols, id, data) ==
    IF IsValid(data)
    THEN [collections |-> [cols EXCEPT ![id].name = data.name],
          response |-> [status |-> 200, body |-> ""]]
    ELSE [collections |-> cols, response |-> BadRequest("errors")]

\* an update that applies the fields before it resolves the apps
update_FieldsFirst(cols, id, data, apps) ==
    IF id \notin DOMAIN cols
    THEN { [collections |-> cols, response |-> [status |-> 404, body |-> ""],
            steps |-> <<"get_object">>] }
    ELSE LET r == super_update(cols, id, data)
         IN  { IF o.exc = "ParseError"
               THEN [collections |-> [r.collections EXCEPT ![id].apps = o.apps],
                     response |-> BadRequest(doesnt_exist),
                     steps |-> <<"get_object", "update", "set_apps">>]
               ELSE [collections |-> [r.collections EXCEPT ![id].apps = o.apps],
                     response |-> r.response,
                     steps |-> <<"get_object", "update", "set_apps">>] :
               o \in set_apps(cols[id].apps, apps) }

\* BaseFeedCollectionViewSet.update: the outcomes of a request
update(cols, id, data, apps) ==
    IF id \notin DOMAIN cols
    THEN { [collections |-> cols, response |-> [status |-> 404, body |-> ""],
            steps |-> <<"get_object">>] }
    ELSE { IF o.exc = "ParseError"
           THEN [collections |-> [cols EXCEPT ![id].apps = o.apps],
                 response |-> BadRequest(doesnt_exist),
                 steps |-> <<"get_object", "set_apps">>]
           ELSE LET r == super_update([cols EXCEPT ![id].apps = o.apps], id, data)
                IN  [collections |-> r.collections, response |-> r.response,
                     steps |-> <<"get_object", "set_apps", "update">>] :
           o \in set_apps(cols[id].apps, apps) }

Create(data, apps) ==
    /\ colPc = "idle"
    /\ Cardinality(DOMAIN collections) < MaxCollections
    /\ \E o \in create(collections, data, apps) :
        /\ collections' = o.collections
        /\ colResponse' = o.response
        /\ colSteps' = o.steps
    /\ colRequest' = [method |-> "create", id |-> 0, data |-> data, apps |-> apps]
    /\ colPc' = "done"
    /\ UNCHANGED <<feedVars, concVars, webVars>>

Update(id, data, apps) ==
    /\ colPc = "idle"
    /\ \E o \in update(collections, id, data, apps) :
        /\ collections' = o.collections
        /\ colResponse' = o.response
        /\ colSteps' = o.steps
    /\ colRequest' = [method |-> "update", id |-> id, data |-> data, apps |-> apps]
    /\ colPc' = "done"
    /\ UNCHANGED <<feedVars, concVars, webVars>>

\* the response is sent and the request is over
FinishCollectionRequest ==
    /\ colPc = "done"
    /\ colPc' = "idle"
    /\ colRequest' = NoCollectionRequest
    /\ colResponse' = NoResponse
    /\ colSteps' = <<>>
    /\ UNCHANGED <<collections, feedVars, concVars, webVars>>

----------------------------------------------------------------------------
(* Website and its search index *)

Titles == {"a", "b"}
NoWebsiteOp == [op |-> "none", id |-> 0]

\* WebsiteIndexer.index_ids(ids): index the rows with these ids
index_ids(idx, rows, ids) ==
    [x \in DOMAIN idx \cup (ids \cap DOMAIN rows) |->
        IF x \in ids THEN [id |-> x, title |-> rows[x].title] ELSE idx[x]]

\* WebsiteIndexer.unindex(id): drop the document with this id
unindex(idx, id) == Without(idx, id)

\* post_save receiver
update_search_index(idx, rows, instance) == index_ids(idx, rows, {instance})

\* a post_delete receiver that leaves the index alone
delete_search_index_Noop(idx, rows, instance) == idx

\* post_delete receiver
delete_search_index(idx, rows, instance) == unindex(idx, instance)

\* Website(...).save() of a new row, with its post_save signal
WebsiteCreate(title) ==
    /\ nextWebsiteId <= MaxWebsites
    /\ LET id == nextWebsiteId
           rows == Extend(websites, id, [title |-> title])
       IN  /\ websites' = rows
           /\ index' = update_search_index(index, rows, id)
           /\ lastWebsiteOp' = [op |-> "create", id |-> id]
    /\ nextWebsiteId' = nextWebsiteId + 1
    /\ UNCHANGED <<feedVars, concVars, colVars>>

\* website.save() of an existing row, with its post_save signal
WebsiteUpdate(id, title) ==
    /\ id \in DOMAIN websites
    /\ LET rows == [websites EXCEPT ![id].title = title]
       IN  /\ websites' = rows
           /\ index' = update_search_index(index, rows, id)
    /\ lastWebsiteOp' = [op |-> "update", id |-> id]
    /\ UNCHANGED <<nextWebsiteId, feedVars, concVars, colVars>>

\* website.delete(), with its post_delete signal
WebsiteDelete(id) ==
    /\ id \in DOMAIN websites
    /\ LET rows == Without(websites, id)
       IN  /\ websites' = rows
           /\ index' = delete_search_index(index, rows, id)
    /\ lastWebsiteOp' = [op |-> "delete", id |-> id]
    /\ UNCHANGED <<nextWebsiteId, feedVars, concVars, colVars>>

----------------------------------------------------------------------------
(* Initial states *)

\* a carrier-scoped row, as the FeedItem endpoints create them
CarrierRow ==
    [region |-> 2, carrier |-> 1, order |-> 0, item_type |-> "app",
     app_id |-> 42, brand_id |-> NULL, collection_id |-> NULL]

FeedInit ==
    /\ feedItems = SetToBag({CarrierRow})
    /\ feedPc = "idle"
    /\ request = EmptyPayload
    /\ response = NoResponse

ConcInit ==
    /\ cpc = [p \in Procs |-> "start"]
    /\ creq = [p \in Procs |-> EmptyPayload]
    /\ citems = [p \in Procs |-> EmptyBag]
    /\ cresp = [p \in Procs |-> NoResponse]

ColInit ==
    /\ collections = <<>>
    /\ colPc = "idle"
    /\ colRequest = NoCollectionRequest
    /\ colResponse = NoResponse
    /\ colSteps = <<>>

WebInit ==
    /\ websites = <<>>
    /\ index = <<>>
    /\ nextWebsiteId = 1
    /\ lastWebsiteOp = NoWebsiteOp

Init == FeedInit /\ ConcInit /\ ColInit /\ WebInit

Next ==
    \/ \E data \in Payloads : Put(data)
    \/ FinishPut

Spec == Init /\ [][Next]_vars

CollectionNext ==
    \/ \E data \in [name : Names \cup {""}], apps \in AppLists : Create(data, apps)
    \/ \E id \in 1..(MaxCollections + 1), data \in [name : Names \cup {""}],
          apps \in AppLists : Update(id, data, apps)
    \/ FinishCollectionRequest

CollectionSpec == Init /\ [][CollectionNext]_vars

WebsiteNext ==
    \/ \E title \in Titles : WebsiteCreate(title)
    \/ \E id \in 1..MaxWebsites, title \in Titles : WebsiteUpdate(id, title)
    \/ \E id \in 1..MaxWebsites : WebsiteDelete(id)

WebsiteSpec == Init /\ [][WebsiteNext]_vars

\* two concurrent rebuilds of a region that holds a carrier-less row
ConcFeedInit ==
    /\ feedItems = SetToBag({CarrierRow, FeedItem(2, 0, "brand", 12)})
    /\ feedPc = "idle"
    /\ request = EmptyPayload
    /\ response = NoResponse

ConcNext ==
    \E p \in Procs :
        \/ \E data \in ConcPayloads : CResolve(p, data)
        \/ CDelete(p)
        \/ CBuild(p)
        \/ CBulkCreate(p)

ConcSpecInit == ConcFeedInit /\ ConcInit /\ ColInit /\ WebInit

ConcSpec == ConcSpecInit /\ [][ConcNext]_vars

----------------------------------------------------------------------------
(* Properties of FeedBuilderView.put *)

\* the foreign key of a row that its item_type names
IdField(r, item_type) ==
    CASE item_type = "app" -> r.app_id
      [] item_type = "brand" -> r.brand_id
      [] item_type = "collection" -> r.collection_id

\* the carrier-less rows of a region
CarrierlessIn(items, region) ==
    [r \in { x \in BagToSet(items) :
                x.carrier = NULL /\ x.region = region } |-> items[r]]

\* every key a region, every element a pair with a known item type
ValidPayload(data) ==
    /\ DOMAIN data \subseteq DOMAIN REGIONS_DICT
    /\ \A k \in DOMAIN data : \A i \in 1..Len(data[k]) :
        /\ data[k][i].py = "list"
        /\ Len(data[k][i].elems) = 2
        /\ data[k][i].elems[1] \in ItemTypes

\* some element of the payload is not a two-element array
HasNotPair(data) ==
    \E k \in DOMAIN data : \E i \in 1..Len(data[k]) :
        data[k][i].py # "list" \/ Len(data[k][i].elems) # 2

\* the region ids of the keys of a payload
RecognizedIds(data) ==
    { REGIONS_DICT[k].id : k \in DOMAIN data \cap DOMAIN REGIONS_DICT }

\* the step that handles a rebuild request
PutStep == feedPc = "idle" /\ feedPc' = "done"

\* C1: after put on a valid payload the response is 201 and, for each region
\* of the payload, the carrier-less rows of the region are exactly the
\* submitted list: one row per element, the row of the i-th element having
\* order i, its item_type and its id in the <item_type>_id field, and no
\* other carrier-less row (none at all for an empty list).
C1Theorem ==
    (feedPc = "done" /\ ValidPayload(request)) =>
        /\ response.status = 201
        /\ \A k \in DOMAIN request :
            LET rows == CarrierlessIn(feedItems, REGIONS_DICT[k].id)
            IN  /\ BagCardinality(rows) = Len(request[k])
                /\ \A i \in 1..Len(request[k]) :
                     \E r \in BagToSet(rows) :
                        /\ r.order = i - 1
                        /\ r.item_type = request[k][i].elems[1]
                        /\ IdField(r, r.item_type) = request[k][i].elems[2]

\* a rebuild of two regions, one with two different elements, one emptied
C1Witness ==
    /\ feedPc = "done"
    /\ response.status = 201
    /\ DOMAIN request = {"us", "uk"}
    /\ Len(request["us"]) = 2
    /\ request["us"][1] # request["us"][2]
    /\ request["uk"] = <<>>
    /\ BagCardinality(CarrierlessIn(feedItems, 2)) = 2

\* C2: a rebuild whose payload has an unrecognized region name answers 400
\* and leaves the FeedItem table as it was.
C2Claim ==
    [][(PutStep /\ UnknownRegion(request')) =>
           (response'.status = 400 /\ feedItems' = feedItems)]_vars

\* C3: a rebuild (of recognized regions) with an element that is not a
\* two-element array answers 400 'Expected two-element arrays.' and stores no
\* row of the payload.
C3Claim ==
    [][(PutStep /\ ~UnknownRegion(request') /\ HasNotPair(request')) =>
           (/\ response' = BadRequest("Expected two-element arrays.")
            /\ feedItems' \sqsubseteq feedItems)]_vars

\* C4: a rebuild rejected for a malformed element leaves the FeedItem table
\* as it was.
C4Claim ==
    [][(PutStep /\ response' = BadRequest("Expected two-element arrays.")) =>
           feedItems' = feedItems]_vars

\* C5: a rebuild, successful or rejected, leaves every row with a carrier and
\* every row of a region that is not a key of the payload as it was.
C5Theorem ==
    [][PutStep =>
           \A r \in BagToSet(feedItems) \cup BagToSet(feedItems') :
               (r.carrier # NULL \/ r.region \notin RecognizedIds(request')) =>
                   CopiesIn(r, feedItems') = CopiesIn(r, feedItems)]_vars

\* a successful rebuild of one region while the other holds carrier-less rows
\* and the rebuilt one a row with a carrier
C5Witness ==
    /\ feedPc = "done"
    /\ response.status = 201
    /\ DOMAIN request = {"us"}
    /\ BagIn(CarrierRow, feedItems)
    /\ BagCardinality(CarrierlessIn(feedItems, 4)) > 0

\* C9: in every state that rebuild requests reach, the order values of the
\* rows of a region+carrier scope are unique and are 0 .. n-1 for n rows.
C9Theorem ==
    \A r \in BagToSet(feedItems) :
        LET scope == [q \in { x \in BagToSet(feedItems) :
                                x.region = r.region /\ x.carrier = r.carrier }
                         |-> feedItems[q]]
        IN  { x.order : x \in BagToSet(scope) } = 0..(BagCardinality(scope) - 1)

\* two regions with two rows each, after the requests that built them
C9Witness ==
    /\ feedPc = "idle"
    /\ BagCardinality(CarrierlessIn(feedItems, 2)) = 2
    /\ BagCardinality(CarrierlessIn(feedItems, 4)) = 2

----------------------------------------------------------------------------
(* Properties of concurrent rebuilds *)

\* the rows a list submitted for the region "us" stands for
ExpectedRows(list) ==
    SetToBag({ [region |-> 2, carrier |-> NULL, order |-> i - 1,
                item_type |-> list[i].elems[1],
                app_id |-> IF list[i].elems[1] = "app"
                           THEN list[i].elems[2] ELSE NULL,
                brand_id |-> IF list[i].elems[1] = "brand"
                             THEN list[i].elems[2] ELSE NULL,
                collection_id |-> IF list[i].elems[1] = "collection"
                                  THEN list[i].elems[2] ELSE NULL] :
               i \in 1..Len(list) })

BothCreated == \A p \in Procs : cpc[p] = "done" /\ cresp[p].status = 201

\* C10: two concurrent rebuilds of a region that both answer 201 leave the
\* carrier-less rows of the region equal to the first list, to the second
\* list, or to both lists together; the last is the mixed result, which
\* equals neither list.
C10Theorem ==
    BothCreated =>
        LET A == ExpectedRows(creq[1]["us"])
            B == ExpectedRows(creq[2]["us"])
        IN  CarrierlessIn(feedItems, 2) \in {A, B, A (+) B}

\* the mixed result: the rows of both lists, two of them with the same order
C10Witness ==
    /\ BothCreated
    /\ LET A == ExpectedRows(creq[1]["us"])
           B == ExpectedRows(creq[2]["us"])
           final == CarrierlessIn(feedItems, 2)
       IN  /\ final = A (+) B
           /\ final \notin {A, B}
           /\ \E r \in BagToSet(final) : \E q \in BagToSet(final) :
                r.order = q.order /\ (r # q \/ final[r] > 1)

----------------------------------------------------------------------------
(* Properties of BaseFeedCollectionViewSet *)

Range(seq) == { seq[i] : i \in 1..Len(seq) }

CollectionStep(method) ==
    colPc = "idle" /\ colPc' = "done" /\ colRequest'.method = method

\* some id of the apps list is not the id of an app
MissingApp(apps) == \E i \in 1..Len(apps) : apps[i] \notin Webapps

\* C6: create with valid base fields and an apps list naming an app that does
\* not exist answers 400 with the fixed message, the base record stays in the
\* table, and neither the post-save step nor the 201 response happens.
C6Theorem ==
    [][(/\ CollectionStep("create")
        /\ colRequest'.data.name \in Names
        /\ MissingApp(colRequest'.apps)) =>
           (/\ colResponse' = BadRequest(doesnt_exist)
            /\ \E id \in DOMAIN collections' \ DOMAIN collections :
                   collections'[id].name = colRequest'.data.name
            /\ "post_save" \notin Range(colSteps'))]_vars

\* a create that failed on its apps, with its record in the table
C6Witness ==
    /\ colPc = "done"
    /\ colRequest.method = "create"
    /\ colResponse = BadRequest(doesnt_exist)
    /\ "save" \in Range(colSteps)
    /\ DOMAIN collections # {}

\* C7: in update, set_apps runs before the field update, and when the apps
\* list names an app that does not exist the field update does not run and
\* the base fields of the record stay as they were.
C7Theorem ==
    [][CollectionStep("update") =>
           (/\ \A i \in 1..Len(colSteps') : colSteps'[i] = "update" =>
                   \E j \in 1..(i - 1) : colSteps'[j] = "set_apps"
            /\ (colRequest'.id \in DOMAIN collections
                    /\ MissingApp(colRequest'.apps)) =>
                   (/\ colResponse' = BadRequest(doesnt_exist)
                    /\ "update" \notin Range(colSteps')
                    /\ collections'[colRequest'.id].name =
                           collections[colRequest'.id].name))]_vars

\* an update that failed on its apps while asking for another name
C7Witness ==
    /\ colPc = "done"
    /\ colRequest.method = "update"
    /\ colResponse = BadRequest(doesnt_exist)
    /\ colRequest.data.name \in Names
    /\ collections[colRequest.id].name # colRequest.data.name

----------------------------------------------------------------------------
(* Properties of the Website search index *)

\* C8: after every create, update and delete of a Website the index holds a
\* document for an id exactly when the row exists, the document is that of
\* the row as saved, and the id of a deleted Website has no document.
C8Theorem ==
    /\ DOMAIN index = DOMAIN websites
    /\ \A id \in DOMAIN websites : index[id] = [id |-> id, title |-> websites[id].title]
    /\ lastWebsiteOp.op = "delete" => lastWebsiteOp.id \notin DOMAIN index

\* a Website was deleted while another is still indexed
C8Witness ==
    /\ lastWebsiteOp.op = "delete"
    /\ lastWebsiteOp.id \notin DOMAIN websites
    /\ lastWebsiteOp.id \notin DOMAIN index
    /\ DOMAIN index # {}

====
